---- MODULE Spec2Model ----
(***************************************************************************)
(* A model of wm (src/wm.go), the working-memory log tool: the three modes *)
(* of main (edit config, search, open log), parseDateString and            *)
(* DatePath.String, together with the parts of the Go standard library the *)
(* program's behaviour rests on (strings, time.Parse, path/filepath,       *)
(* regexp on literal patterns), at the level of single characters.         *)
(*                                                                         *)
(* A Go string or []byte is a sequence of one-character strings.  Offsets  *)
(* into a string are 0-based as in Go; SubSeq is 1-based, so the Go slice  *)
(* s[a:b] is SubSeq(s, a + 1, b).                                          *)
(***************************************************************************)
EXTENDS Integers, Sequences, FiniteSets, TLC

(***************************************************************************)
(* Bounds of the model.                                                    *)
(***************************************************************************)
\* Hour boundaries the clock may cross between two consecutive time.Now().
MaxDrift == 1
\* The longest content of a pre-existing log file, in characters.
MaxLen == 3
\* The most terms on the search command line.
MaxTerms == 2
\* The largest configured context_size (the smallest is -1).
MaxCtx == 1
\* The most invocations of the program in one behaviour.
MaxRuns == 2

(***************************************************************************)
(* package strings                                                         *)
(***************************************************************************)
Slice(s, a, b) == SubSeq(s, a + 1, b)

HasPrefixAt(s, p, i) ==
    /\ i + Len(p) - 1 <= Len(s)
    /\ \A j \in 1..Len(p) : s[i + j - 1] = p[j]

\* strings.Index, 1-based; 0 when p does not occur in s.
Index(s, p) ==
    LET at == {i \in 1..(Len(s) + 1) : HasPrefixAt(s, p, i)}
    IN  IF at = {} THEN 0 ELSE CHOOSE i \in at : \A j \in at : i <= j

Contains(s, p) == Index(s, p) # 0

\* strings.Replace(s, old, new, 1)
ReplaceFirst(s, old, new) ==
    LET i == Index(s, old)
    IN  IF i = 0 THEN s
        ELSE SubSeq(s, 1, i - 1) \o new \o SubSeq(s, i + Len(old), Len(s))

\* strings.ReplaceAll(s, old, new) for a non-empty old
RECURSIVE ReplaceAll(_, _, _)
ReplaceAll(s, old, new) ==
    LET i == Index(s, old)
    IN  IF i = 0 THEN s
        ELSE SubSeq(s, 1, i - 1) \o new
             \o ReplaceAll(SubSeq(s, i + Len(old), Len(s)), old, new)

Uppers == <<"A","B","C","D","E","F","G","H","I","J","K","L","M",
            "N","O","P","Q","R","S","T","U","V","W","X","Y","Z">>
Lowers == <<"a","b","c","d","e","f","g","h","i","j","k","l","m",
            "n","o","p","q","r","s","t","u","v","w","x","y","z">>

LowerChar(c) ==
    IF \E i \in 1..26 : Uppers[i] = c
    THEN Lowers[CHOOSE i \in 1..26 : Uppers[i] = c]
    ELSE c

ToLower(s) == [i \in 1..Len(s) |-> LowerChar(s[i])]

IsSpace(c) == c \in {" ", "\t", "\n", "\r"}

TrimSpace(s) ==
    LET keep == {i \in 1..Len(s) : ~IsSpace(s[i])}
    IN  IF keep = {} THEN <<>>
        ELSE SubSeq(s, CHOOSE i \in keep : \A j \in keep : i <= j,
                       CHOOSE i \in keep : \A j \in keep : j <= i)

\* strings.Split(s, sep) for a one-character sep
RECURSIVE Split(_, _)
Split(s, sep) ==
    LET i == Index(s, <<sep>>)
    IN  IF i = 0 THEN <<s>>
        ELSE <<SubSeq(s, 1, i - 1)>> \o Split(SubSeq(s, i + 1, Len(s)), sep)

Digits == <<"0","1","2","3","4","5","6","7","8","9">>

\* fmt's %d of a non-negative integer
RECURSIVE Itoa(_)
Itoa(n) ==
    IF n < 10 THEN <<Digits[n + 1]>>
    ELSE Itoa(n \div 10) \o <<Digits[(n % 10) + 1]>>

(***************************************************************************)
(* package time: Parse, for the layouts of dateFormats                     *)
(***************************************************************************)
IsDigitAt(s, i) == i <= Len(s) /\ \E d \in 1..10 : Digits[d] = s[i]

DigitVal(c) == (CHOOSE d \in 1..10 : Digits[d] = c) - 1

\* time.getnum(s, false): one or two leading digits
getnum(s) ==
    IF ~IsDigitAt(s, 1) THEN [ok |-> FALSE, n |-> 0, rest |-> s]
    ELSE IF ~IsDigitAt(s, 2)
         THEN [ok |-> TRUE, n |-> DigitVal(s[1]), rest |-> Slice(s, 1, Len(s))]
         ELSE [ok |-> TRUE, n |-> DigitVal(s[1]) * 10 + DigitVal(s[2]),
               rest |-> Slice(s, 2, Len(s))]

shortMonthNames == <<
    <<"j","a","n">>, <<"f","e","b">>, <<"m","a","r">>, <<"a","p","r">>,
    <<"m","a","y">>, <<"j","u","n">>, <<"j","u","l">>, <<"a","u","g">>,
    <<"s","e","p">>, <<"o","c","t">>, <<"n","o","v">>, <<"d","e","c">> >>

longMonthNames == <<
    <<"j","a","n","u","a","r","y">>, <<"f","e","b","r","u","a","r","y">>,
    <<"m","a","r","c","h">>, <<"a","p","r","i","l">>, <<"m","a","y">>,
    <<"j","u","n","e">>, <<"j","u","l","y">>, <<"a","u","g","u","s","t">>,
    <<"s","e","p","t","e","m","b","e","r">>, <<"o","c","t","o","b","e","r">>,
    <<"n","o","v","e","m","b","e","r">>, <<"d","e","c","e","m","b","e","r">> >>

\* time.lookup: the first name of tab that is a prefix of val, letter case
\* ignored (the table is kept in lower case here).
lookup(tab, val) ==
    LET v   == ToLower(val)
        hit == {i \in 1..Len(tab) : HasPrefixAt(v, tab[i], 1)}
    IN  IF hit = {} THEN [ok |-> FALSE, n |-> 0, rest |-> val]
        ELSE LET i == CHOOSE i \in hit : \A j \in hit : i <= j
             IN  [ok |-> TRUE, n |-> i, rest |-> Slice(val, Len(tab[i]), Len(val))]

RECURSIVE cutspace(_)
cutspace(s) == IF Len(s) > 0 /\ s[1] = " " THEN cutspace(Tail(s)) ELSE s

\* time.skip: value with the literal prefix removed; a space of the layout
\* stands for a run of spaces of the value.
RECURSIVE skip(_, _)
skip(value, prefix) ==
    IF Len(prefix) = 0 THEN [ok |-> TRUE, rest |-> value]
    ELSE IF prefix[1] = " "
         THEN IF Len(value) > 0 /\ value[1] # " "
              THEN [ok |-> FALSE, rest |-> value]
              ELSE skip(cutspace(value), cutspace(prefix))
         ELSE IF Len(value) = 0 \/ value[1] # prefix[1]
              THEN [ok |-> FALSE, rest |-> value]
              ELSE skip(Tail(value), Tail(prefix))

L_January == <<"J","a","n","u","a","r","y">>
L_Jan     == <<"J","a","n">>
L_2006    == <<"2","0","0","6">>

\* The layout element starting at character i of layout ("" when none), for
\* the elements dateFormats uses.
StdAt(layout, i) ==
    IF HasPrefixAt(layout, L_January, i) THEN "stdLongMonth"
    ELSE IF HasPrefixAt(layout, L_Jan, i) THEN "stdMonth"
    ELSE IF HasPrefixAt(layout, L_2006, i) THEN "stdLongYear"
    ELSE IF layout[i] = "1" THEN "stdNumMonth"
    ELSE IF layout[i] = "2" THEN "stdDay"
    ELSE ""

StdLen(std) ==
    CASE std = "stdLongMonth" -> 7
      [] std = "stdMonth"     -> 3
      [] std = "stdLongYear"  -> 4
      [] OTHER                -> 1

\* time.nextStdChunk: the literal prefix, the first layout element and the
\* rest of the layout.
nextStdChunk(layout) ==
    LET at == {i \in 1..Len(layout) : StdAt(layout, i) # ""}
    IN  IF at = {} THEN [prefix |-> layout, std |-> "", suffix |-> <<>>]
        ELSE LET i == CHOOSE i \in at : \A j \in at : i <= j
                 std == StdAt(layout, i)
             IN  [prefix |-> SubSeq(layout, 1, i - 1), std |-> std,
                  suffix |-> SubSeq(layout, i + StdLen(std), Len(layout))]

isLeap(year) == year % 4 = 0 /\ (year % 100 # 0 \/ year % 400 = 0)

daysIn(month, year) ==
    IF month = 2 THEN (IF isLeap(year) THEN 29 ELSE 28)
    ELSE IF month \in {4, 6, 9, 11} THEN 30 ELSE 31

NoDate == [ok |-> FALSE, year |-> 0, month |-> 0, day |-> 0]

\* One layout element of time.Parse read from the front of v: ok, the
\* fields read so far, and the rest of v.
ParseStd(std, v, acc) ==
    IF std = "stdLongYear"
    THEN IF Len(v) < 4 \/ ~\A i \in 1..4 : IsDigitAt(v, i)
         THEN [ok |-> FALSE, acc |-> acc, rest |-> v]
         ELSE [ok |-> TRUE, rest |-> Slice(v, 4, Len(v)),
               acc |-> [acc EXCEPT !.year = DigitVal(v[1]) * 1000 + DigitVal(v[2]) * 100
                                            + DigitVal(v[3]) * 10 + DigitVal(v[4])]]
    ELSE IF std = "stdMonth" \/ std = "stdLongMonth"
    THEN LET r == lookup(IF std = "stdMonth" THEN shortMonthNames
                         ELSE longMonthNames, v)
         IN  [ok |-> r.ok, rest |-> r.rest, acc |-> [acc EXCEPT !.month = r.n]]
    ELSE IF std = "stdNumMonth"
    THEN LET r == getnum(v)
         IN  [ok |-> r.ok /\ ~(r.n <= 0 \/ 12 < r.n), rest |-> r.rest,
              acc |-> [acc EXCEPT !.month = r.n]]
    ELSE LET r == getnum(v)
         IN  [ok |-> r.ok, rest |-> r.rest, acc |-> [acc EXCEPT !.day = r.n]]

\* The loop of time.Parse over the layout's chunks; acc holds the fields
\* read so far.  At the end of the layout nothing of the value may be left
\* and the day must be one of the month.
RECURSIVE ParseLoop(_, _, _)
ParseLoop(layout, value, acc) ==
    LET ch == nextStdChunk(layout)
        sk == skip(value, ch.prefix)
        st == ParseStd(ch.std, sk.rest, acc)
    IN  IF ~sk.ok THEN NoDate
        ELSE IF ch.std = ""
        THEN (IF Len(sk.rest) # 0 THEN NoDate
              ELSE IF acc.day < 1 \/ acc.day > daysIn(acc.month, acc.year)
                   THEN NoDate
                   ELSE acc)
        ELSE IF ~st.ok THEN NoDate
        ELSE ParseLoop(ch.suffix, st.rest, st.acc)

\* time.Parse(layout, value): ok, or the date read
Parse(layout, value) ==
    ParseLoop(layout, value, [ok |-> TRUE, year |-> 0, month |-> 1, day |-> 1])

(***************************************************************************)
(* parseDateString: the fixed list of layouts, tried in order              *)
(***************************************************************************)
dateFormats == <<
    <<"1","/","2","/","2","0","0","6">>,
    <<"1","-","2","-","2","0","0","6">>,
    <<"J","a","n"," ","2"," ","2","0","0","6">>,
    <<"J","a","n"," ","2",","," ","2","0","0","6">>,
    <<"2"," ","J","a","n"," ","2","0","0","6">>,
    <<"2"," ","J","a","n",","," ","2","0","0","6">>,
    <<"2","/","1","/","2","0","0","6">>,
    <<"2","-","1","-","2","0","0","6">>,
    <<"2","-","J","a","n","-","2","0","0","6">>,
    <<"J","a","n","u","a","r","y"," ","2"," ","2","0","0","6">>,
    <<"J","a","n","u","a","r","y"," ","2",","," ","2","0","0","6">>,
    <<"2"," ","J","a","n","u","a","r","y"," ","2","0","0","6">>,
    <<"2"," ","J","a","n","u","a","r","y",","," ","2","0","0","6">> >>

S_today     == <<"t","o","d","a","y">>
S_yesterday == <<"y","e","s","t","e","r","d","a","y">>
S_tomorrow  == <<"t","o","m","o","r","r","o","w">>

\* Lines 33-34: the input in lower case, then without surrounding space.
Normalise(inDate) == TrimSpace(ToLower(inDate))

\* The variant that takes the last layout that parses s.
LastFormat(s) ==
    LET hit == {i \in 1..Len(dateFormats) : Parse(dateFormats[i], s).ok}
    IN  IF hit = {} THEN 0 ELSE CHOOSE i \in hit : \A j \in hit : i >= j

\* The index in dateFormats of the first layout that parses s; 0 when none.
FirstFormat(s) ==
    LET hit == {i \in 1..Len(dateFormats) : Parse(dateFormats[i], s).ok}
    IN  IF hit = {} THEN 0 ELSE CHOOSE i \in hit : \A j \in hit : i <= j

\* Lines 73-85: the date of the first layout that parses s, or the error.
ParseFormats(s) ==
    LET i == FirstFormat(s)
    IN  IF i = 0 THEN NoDate ELSE Parse(dateFormats[i], s)

\* DatePath.String: "/%d/%d/%d.txt"
DatePathString(ds) ==
    <<"/">> \o Itoa(ds.year) \o <<"/">> \o Itoa(ds.month) \o <<"/">>
    \o Itoa(ds.day) \o <<".","t","x","t">>

(***************************************************************************)
(* The system clock and the local time zone.  An instant is an hour of one *)
(* of three stretches of consecutive local days (America/New_York): around *)
(* the start of daylight saving time (a day of 23 hours), around its end   *)
(* (a day of 25 hours), and around the new year.  time.Now() during one    *)
(* run returns hours that never go back.                                   *)
(***************************************************************************)
Calendar == <<
    << [year |-> 2024, month |-> 3,  day |-> 9,  hours |-> 24],
       [year |-> 2024, month |-> 3,  day |-> 10, hours |-> 23],
       [year |-> 2024, month |-> 3,  day |-> 11, hours |-> 24],
       [year |-> 2024, month |-> 3,  day |-> 12, hours |-> 24] >>,
    << [year |-> 2024, month |-> 11, day |-> 2,  hours |-> 24],
       [year |-> 2024, month |-> 11, day |-> 3,  hours |-> 25],
       [year |-> 2024, month |-> 11, day |-> 4,  hours |-> 24],
       [year |-> 2024, month |-> 11, day |-> 5,  hours |-> 24] >>,
    << [year |-> 2023, month |-> 12, day |-> 30, hours |-> 24],
       [year |-> 2023, month |-> 12, day |-> 31, hours |-> 24],
       [year |-> 2024, month |-> 1,  day |-> 1,  hours |-> 24],
       [year |-> 2024, month |-> 1,  day |-> 2,  hours |-> 24] >> >>

RECURSIVE DayStart(_, _)
DayStart(w, i) == IF i <= 1 THEN 0 ELSE DayStart(w, i - 1) + Calendar[w][i - 1].hours

\* The local day (its index in the stretch) that instant t falls in.
DayIndex(t) ==
    CHOOSE i \in 1..Len(Calendar[t.w]) :
        DayStart(t.w, i) <= t.h /\ t.h < DayStart(t.w, i + 1)

\* Time.Year(), Time.Month(), Time.Day() of a local time
LocalDate(t) ==
    LET d == Calendar[t.w][DayIndex(t)]
    IN  [year |-> d.year, month |-> d.month, day |-> d.day]

\* Time.Add(n * time.Hour)
AddHours(t, n) == [t EXCEPT !.h = @ + n]

\* The calendar day k days from the day of t.
CalendarDay(t, k) ==
    LET d == Calendar[t.w][DayIndex(t) + k]
    IN  [year |-> d.year, month |-> d.month, day |-> d.day]

\* The instants of the two middle days of each stretch, where a run starts.
StartInstants ==
    UNION {{[w |-> w, h |-> h] : h \in DayStart(w, 2)..(DayStart(w, 4) - 1)} :
           w \in 1..Len(Calendar)}

NoInstant == [w |-> 0, h |-> 0]

\* What time.Now() may return after it returned prev (NoInstant: not yet
\* called in this run).
NowAfter(prev) ==
    IF prev = NoInstant THEN StartInstants
    ELSE {[w |-> prev.w, h |-> h] : h \in prev.h..(prev.h + MaxDrift)}

(***************************************************************************)
(* package path/filepath and the file system.  os is runtime.GOOS.  A path *)
(* names the file or directory of its cleaned form; the roots and home     *)
(* directories of the model hold no "." or ".." elements and no volume     *)
(* other than a leading "C:", which is treated as a path element.          *)
(***************************************************************************)
Separator(os) == IF os = "windows" THEN "\\" ELSE "/"

IsPathSeparator(os, c) == c = "/" \/ (os = "windows" /\ c = "\\")

\* The non-empty elements of path between its separators.
RECURSIVE Elements(_, _)
Elements(os, path) ==
    LET seps == {i \in 1..Len(path) : IsPathSeparator(os, path[i])}
    IN  IF seps = {} THEN (IF Len(path) = 0 THEN <<>> ELSE <<path>>)
        ELSE LET i == CHOOSE i \in seps : \A j \in seps : i <= j
             IN  (IF i = 1 THEN <<>> ELSE <<SubSeq(path, 1, i - 1)>>)
                 \o Elements(os, SubSeq(path, i + 1, Len(path)))

RECURSIVE JoinElements(_, _)
JoinElements(os, els) ==
    IF Len(els) = 0 THEN <<>>
    ELSE IF Len(els) = 1 THEN els[1]
    ELSE els[1] \o <<Separator(os)>> \o JoinElements(os, Tail(els))

\* filepath.Clean: separators made native, runs of them made one, no
\* trailing separator; "." for the empty path.
Clean(os, path) ==
    LET rooted == Len(path) > 0 /\ IsPathSeparator(os, path[1])
        body   == JoinElements(os, Elements(os, path))
        out    == (IF rooted THEN <<Separator(os)>> ELSE <<>>) \o body
    IN  IF Len(out) = 0 THEN <<".">> ELSE out

\* filepath.Dir: all but the last element of path, cleaned
Dir(os, path) ==
    LET seps == {i \in 1..Len(path) : IsPathSeparator(os, path[i])}
    IN  IF seps = {} THEN <<".">>
        ELSE Clean(os, SubSeq(path, 1, CHOOSE i \in seps : \A j \in seps : j <= i))

\* The directories os.MkdirAll(dir) makes sure exist, outermost first.
DirChain(os, dir) ==
    LET els    == Elements(os, dir)
        rooted == Len(dir) > 0 /\ IsPathSeparator(os, dir[1])
    IN  IF dir = <<".">> THEN <<>>
        ELSE [k \in 1..Len(els) |->
                 (IF rooted THEN <<Separator(os)>> ELSE <<>>)
                 \o JoinElements(os, SubSeq(els, 1, k))]

SeqRange(q) == {q[i] : i \in 1..Len(q)}

\* os.Stat finds something at path.
Exists(os, f, path) ==
    Clean(os, path) \in DOMAIN f.files \/ Clean(os, path) \in f.dirs

\* The characters the model's strings are made of, in ASCII order.
Ascii == <<"\t","\n","\r"," ","(","*",",","-",".","/",
           "0","1","2","3","4","5","6","7","8","9",":","?",
           "A","B","C","D","E","F","G","H","I","J","K","L","M",
           "N","O","P","Q","R","S","T","U","V","W","X","Y","Z",
           "[","\\","]","^",
           "a","b","c","d","e","f","g","h","i","j","k","l","m",
           "n","o","p","q","r","s","t","u","v","w","x","y","z","~">>

Ord(c) == CHOOSE i \in 1..Len(Ascii) : Ascii[i] = c

\* filepath's getEsc: one character of a class, or an error.
getEsc(os, chunk) ==
    IF Len(chunk) = 0 \/ chunk[1] = "-" \/ chunk[1] = "]"
    THEN [ok |-> FALSE, r |-> "", rest |-> chunk]
    ELSE LET c == IF chunk[1] = "\\" /\ os # "windows" THEN Tail(chunk) ELSE chunk
         IN  IF Len(c) = 0 \/ Len(c) = 1
             THEN [ok |-> FALSE, r |-> "", rest |-> <<>>]
             ELSE [ok |-> TRUE, r |-> c[1], rest |-> Tail(c)]

\* The ranges of a character class, read from behind its "[" (and "^"):
\* ok, whether ch is in one of them, and the pattern behind the "]".
RECURSIVE ClassRanges(_, _, _, _, _)
ClassRanges(os, chunk, ch, nrange, hit) ==
    IF Len(chunk) > 0 /\ chunk[1] = "]" /\ nrange > 0
    THEN [ok |-> TRUE, hit |-> hit, rest |-> Tail(chunk)]
    ELSE LET lo == getEsc(os, chunk)
         IN  IF ~lo.ok THEN [ok |-> FALSE, hit |-> FALSE, rest |-> <<>>]
             ELSE IF lo.rest[1] = "-"
             THEN LET hi == getEsc(os, Tail(lo.rest))
                  IN  IF ~hi.ok THEN [ok |-> FALSE, hit |-> FALSE, rest |-> <<>>]
                      ELSE ClassRanges(os, hi.rest, ch, nrange + 1,
                               hit \/ (ch # "" /\ Ord(lo.r) <= Ord(ch)
                                                /\ Ord(ch) <= Ord(hi.r)))
             ELSE ClassRanges(os, lo.rest, ch, nrange + 1, hit \/ ch = lo.r)

\* A character class behind its "[": ok, whether ch matches, the rest.
Class(os, chunk, ch) ==
    LET neg == Len(chunk) > 0 /\ chunk[1] = "^"
        r   == ClassRanges(os, IF neg THEN Tail(chunk) ELSE chunk, ch, 0, FALSE)
    IN  [ok |-> r.ok, hit |-> (r.hit # neg), rest |-> r.rest]

\* filepath.Match reports ErrBadPattern for pattern.
RECURSIVE BadPattern(_, _)
BadPattern(os, pattern) ==
    IF Len(pattern) = 0 THEN FALSE
    ELSE IF pattern[1] = "["
         THEN LET c == Class(os, Tail(pattern), "")
              IN  ~c.ok \/ BadPattern(os, c.rest)
    ELSE IF pattern[1] = "\\" /\ os # "windows"
         THEN Len(pattern) = 1 \/ BadPattern(os, Tail(Tail(pattern)))
    ELSE BadPattern(os, Tail(pattern))

\* filepath.Match of a well-formed pattern: "*" is any run of
\* non-separators, "?" one non-separator, "[...]" one character of a class.
RECURSIVE Match(_, _, _)
Match(os, pattern, name) ==
    IF Len(pattern) = 0 THEN Len(name) = 0
    ELSE IF pattern[1] = "*"
         THEN \E k \in 0..Len(name) :
                 /\ \A i \in 1..k : name[i] # Separator(os)
                 /\ Match(os, Tail(pattern), SubSeq(name, k + 1, Len(name)))
    ELSE IF Len(name) = 0 THEN FALSE
    ELSE IF pattern[1] = "["
         THEN LET c == Class(os, Tail(pattern), name[1])
              IN  c.hit /\ Match(os, c.rest, Tail(name))
    ELSE IF pattern[1] = "?"
         THEN name[1] # Separator(os) /\ Match(os, Tail(pattern), Tail(name))
    ELSE IF pattern[1] = "\\" /\ os # "windows"
         THEN pattern[2] = name[1] /\ Match(os, Tail(Tail(pattern)), Tail(name))
    ELSE pattern[1] = name[1] /\ Match(os, Tail(pattern), Tail(name))

\* Line 196: the pattern search lists files with
GlobSuffix == <<"[","1","-","9","]","[","0","-","9","]","[","0","-","9","]","[","0","-","9","]","/","*","/","*",".","t","x","t">>

SearchPath(root) == root \o GlobSuffix

\* filepath.Glob(pattern), given no I/O error: the files that match it,
\* element by element (Glob walks the pattern's directories).
GlobSet(os, f, pattern) ==
    {k \in DOMAIN f.files : Match(os, Clean(os, pattern), k)}

(***************************************************************************)
(* package regexp, for the terms of the model: strings over a, b and "(".  *)
(* A term with a "(" has a group that is never closed and does not         *)
(* compile; any other term is a literal, possibly empty.                   *)
(***************************************************************************)
\* regexp.Compile(term)
CompileQuoted(term) == [ok |-> TRUE, lit |-> term]

Compile(term) ==
    IF \E i \in 1..Len(term) : term[i] = "("
    THEN [ok |-> FALSE, lit |-> <<>>]
    ELSE [ok |-> TRUE, lit |-> term]

\* The variant that resumes one character behind the start of a match.
RECURSIVE allMatchesOverlapping(_, _, _, _)
allMatchesOverlapping(lit, data, pos, prevMatchEnd) ==
    IF pos > Len(data) THEN <<>>
    ELSE LET i == Index(Slice(data, pos, Len(data)), lit)
         IN  IF i = 0 THEN <<>>
             ELSE LET start == pos + i - 1
                  IN  << <<start, start + Len(lit)>> >>
                      \o allMatchesOverlapping(lit, data, start + 1, start + Len(lit))

\* regexp's allMatches from offset pos: the matches as <<start, end>>,
\* 0-based, leftmost first, none overlapping, an empty match never right
\* behind the match before it.
RECURSIVE allMatches(_, _, _, _)
allMatches(lit, data, pos, prevMatchEnd) ==
    IF pos > Len(data) THEN <<>>
    ELSE LET i == Index(Slice(data, pos, Len(data)), lit)
         IN  IF i = 0 THEN <<>>
             ELSE LET start  == pos + i - 1
                      end    == start + Len(lit)
                      accept == ~(end = pos /\ start = prevMatchEnd)
                      next   == IF end = pos THEN pos + 1 ELSE end
                  IN  (IF accept THEN << <<start, end>> >> ELSE <<>>)
                      \o allMatches(lit, data, next, end)

\* Regexp.FindAllIndex(data, -1); the empty sequence stands for nil.
FindAllIndex(re, data) == allMatches(re.lit, data, 0, -1)

(***************************************************************************)
(* The text a search hit prints, and the header of a new log file          *)
(***************************************************************************)
\* Lines 222-229: the bounds of the context window of a match at offset s.
ContextBounds(s, size, n) ==
    LET lb == s - size
        rb == s + size
    IN  [lb |-> IF lb < 0 THEN 0 ELSE lb, rb |-> IF rb > n THEN n ELSE rb]

RECURSIVE IndentLines(_)
IndentLines(lines) ==
    IF Len(lines) = 0 THEN <<>>
    ELSE <<"\t">> \o lines[1] \o <<"\n">> \o IndentLines(Tail(lines))

\* Lines 230-235: the window, each of its lines behind a tab.
ContextText(data, b) == IndentLines(Split(Slice(data, b.lb, b.rb), "\n"))

\* Lines 268-272: the content of a new log file.
Header(ds) ==
    <<"W","o","r","k","i","n","g"," ","M","e","m","o","r","y"," ","F","i","l","e","\n">>
    \o Itoa(ds.month) \o <<"/">> \o Itoa(ds.day) \o <<"/">> \o Itoa(ds.year)
    \o <<"\n">> \o <<"-","-","-","-","-","-","-","-","-","-","-","-","-","-","-","-","-","-","-","\n","\n">>

\* Lines 247-255: the path of the log of date ds under root; hd is the
\* result of os.UserHomeDir() (ok, dir).
C_TildeSlash == <<"~","/">>

NeedsHome(root, ds) == Contains(root \o DatePathString(ds), C_TildeSlash)

WmPath(root, ds, hd) ==
    LET p == root \o DatePathString(ds)
    IN  IF Contains(p, C_TildeSlash)
        THEN ReplaceAll(ReplaceFirst(p, C_TildeSlash, hd \o <<"/">>),
                        <<"/">>, <<"\\">>)
        ELSE p

\* The order filepath.Glob lists files in: element by element, each
\* directory's names in byte order.
RECURSIVE StringLess(_, _)
StringLess(a, b) ==
    IF Len(b) = 0 THEN FALSE
    ELSE IF Len(a) = 0 THEN TRUE
    ELSE IF a[1] # b[1] THEN Ord(a[1]) < Ord(b[1])
    ELSE StringLess(Tail(a), Tail(b))

RECURSIVE ElementsLess(_, _)
ElementsLess(a, b) ==
    IF Len(b) = 0 THEN FALSE
    ELSE IF Len(a) = 0 THEN TRUE
    ELSE IF a[1] # b[1] THEN StringLess(a[1], b[1])
    ELSE ElementsLess(Tail(a), Tail(b))

RECURSIVE SortPaths(_, _)
SortPaths(os, S) ==
    IF S = {} THEN <<>>
    ELSE LET m == CHOOSE x \in S : \A y \in S \ {x} :
                      ElementsLess(Elements(os, x), Elements(os, y))
         IN  <<m>> \o SortPaths(os, S \ {m})

\* Lines 196-197: the files search lists, in order
Glob(os, f, root) == SortPaths(os, GlobSet(os, f, SearchPath(root)))

(***************************************************************************)
(* The state                                                               *)
(***************************************************************************)
VARIABLES
    goos,      \* runtime.GOOS
    home,      \* what os.UserHomeDir() returns: [ok, dir]
    cfg,       \* the Configuration GetConfig returned
    fs,        \* the file system: [files: path -> content, dirs: paths]
    params,    \* the Parameters docopt bound
    pc,        \* where main is
    exitCode,  \* -1 while main runs, then the exit code of the process
    out,       \* what the run has written to stdout and stderr, in order
    editor,    \* the process cmd.Start() made: none, running, exit0, exit1
    now0,      \* the first time.Now() of the run
    now,       \* the last time.Now() of the run
    pd,        \* the DatePath parseDateString returned
    wmPath,    \* the path of the log file
    files,     \* search: the files Glob listed
    res,       \* search: the compiled terms
    fi,        \* search: the index of the file in files
    ri,        \* search: the index of the term in res
    hi,        \* search: the index of the match in locs
    fileData,  \* search: the content read from the file
    locs,      \* search: the matches of the term in the file
    reads,     \* the files os.ReadFile was called on in this run
    runs,      \* the invocations of the program so far
    fs0,       \* the file system when this run started
    ensured    \* path -> content, as the first run that ensured it left it

envVars    == <<goos, home, cfg>>
openVars   == <<now0, now, pd, wmPath>>
searchVars == <<files, res, fi, ri, hi, fileData, locs, reads>>
histVars   == <<runs, fs0, ensured>>
vars == <<goos, home, cfg, fs, params, pc, exitCode, out, editor, now0, now,
          pd, wmPath, files, res, fi, ri, hi, fileData, locs, reads, runs,
          fs0, ensured>>

\* One write to stdout or stderr.
Ev(stream, kind, arg, n, text) ==
    [stream |-> stream, kind |-> kind, arg |-> arg, n |-> n, text |-> text,
     ri |-> ri, off |-> IF kind = "hit" THEN locs[hi][1] ELSE 0]

\* log.Fatalln: the message on stderr, then os.Exit(1)
Fatal(kind, arg) ==
    /\ out' = Append(out, Ev("stderr", kind, arg, 0, <<>>))
    /\ pc' = "exit"
    /\ exitCode' = 1

NoDatePath == [year |-> 0, month |-> 0, day |-> 0]

(***************************************************************************)
(* main, edit config: lines 182-193                                        *)
(***************************************************************************)
\* Lines 183-187: cmd.Start() of the editor on the configuration file
ConfigStart ==
    /\ pc = "main" /\ params.Config
    /\ \E started \in BOOLEAN :
          IF started
          THEN /\ editor' = "running"
               /\ pc' = "cfg_wait"
               /\ UNCHANGED <<out, exitCode>>
          ELSE /\ Fatal("failed to open configuration file", <<>>)
               /\ UNCHANGED editor
    /\ UNCHANGED <<envVars, fs, params, openVars, searchVars, histVars>>

\* The variant that exits without cmd.Wait().
ConfigNoWait ==
    /\ pc = "cfg_wait"
    /\ pc' = "exit" /\ exitCode' = 0
    /\ UNCHANGED <<envVars, fs, params, out, editor, openVars, searchVars, histVars>>

\* Lines 188-192: cmd.Wait() returns once the editor has exited
ConfigWait ==
    /\ pc = "cfg_wait" /\ editor \in {"exit0", "exit1"}
    /\ IF editor = "exit0"
       THEN /\ pc' = "exit" /\ exitCode' = 0 /\ UNCHANGED out
       ELSE Fatal("configuration failed to update", <<>>)
    /\ UNCHANGED <<envVars, fs, params, editor, openVars, searchVars, histVars>>

\* The editor, a process of its own, exits with code 0 or not.
EditorExit ==
    /\ editor = "running"
    /\ \E e \in {"exit0", "exit1"} : editor' = e
    /\ UNCHANGED <<envVars, fs, params, pc, exitCode, out, openVars,
                   searchVars, histVars>>

(***************************************************************************)
(* main, search: lines 195-241                                             *)
(***************************************************************************)
\* Lines 196-200
SearchGlob ==
    /\ pc = "main" /\ ~params.Config /\ params.Search
    /\ IF BadPattern(goos, SearchPath(cfg.Root))
       THEN /\ Fatal("failed to read all files in the root directory", <<>>)
            /\ UNCHANGED files
       ELSE /\ files' = Glob(goos, fs, cfg.Root)
            /\ pc' = "compile"
            /\ UNCHANGED <<out, exitCode>>
    /\ UNCHANGED <<envVars, fs, params, editor, openVars, res, fi, ri, hi,
                   fileData, locs, reads, histVars>>

\* Lines 202-208, one term
SearchCompile ==
    /\ pc = "compile" /\ Len(res) < Len(params.Term)
    /\ LET term == params.Term[Len(res) + 1]
           re   == Compile(term)
       IN  IF ~re.ok
           THEN /\ Fatal("could not compile search term", term)
                /\ UNCHANGED res
           ELSE /\ res' = Append(res, re)
                /\ UNCHANGED <<pc, out, exitCode>>
    /\ UNCHANGED <<envVars, fs, params, editor, openVars, files, fi, ri, hi,
                   fileData, locs, reads, histVars>>

\* Line 209
SearchAnnounce ==
    /\ pc = "compile" /\ Len(res) = Len(params.Term)
    /\ out' = Append(out, Ev("stdout", "searching for", <<>>, 0, <<>>))
    /\ pc' = "files"
    /\ fi' = 1
    /\ UNCHANGED <<envVars, fs, params, exitCode, editor, openVars, files, res,
                   ri, hi, fileData, locs, reads, histVars>>

\* Lines 210-215: the next file is read and its header printed; a read may
\* fail, and then fileData is nil
SearchReadFile ==
    /\ pc = "files" /\ fi <= Len(files)
    /\ \E readOk \in BOOLEAN :
          /\ fileData' = IF readOk THEN fs.files[files[fi]] ELSE <<>>
          /\ out' = out
                \o (IF readOk THEN <<>>
                    ELSE <<Ev("stderr", ":::note::: failed to read", files[fi], 0, <<>>)>>)
                \o <<Ev("stdout", "header", files[fi], 0, <<>>)>>
    /\ reads' = reads \cup {files[fi]}
    /\ ri' = 1
    /\ pc' = "terms"
    /\ UNCHANGED <<envVars, fs, params, exitCode, editor, openVars, files, res,
                   fi, hi, locs, histVars>>

\* Lines 216-220: the matches of the next term; none: on to the next term
SearchTerm ==
    /\ pc = "terms" /\ ri <= Len(res)
    /\ LET found == FindAllIndex(res[ri], fileData)
       IN  IF Len(found) = 0
           THEN /\ ri' = ri + 1
                /\ UNCHANGED <<pc, hi, locs>>
           ELSE /\ locs' = found
                /\ hi' = 1
                /\ pc' = "hits"
                /\ UNCHANGED ri
    /\ UNCHANGED <<envVars, fs, params, exitCode, out, editor, openVars, files,
                   res, fi, fileData, reads, histVars>>

\* Line 216, past the last term: on to the next file
SearchNextFile ==
    /\ pc = "terms" /\ ri > Len(res)
    /\ fi' = fi + 1
    /\ pc' = "files"
    /\ UNCHANGED <<envVars, fs, params, exitCode, out, editor, openVars, files,
                   res, ri, hi, fileData, locs, reads, histVars>>

\* Lines 221-237, one match: fileData[lb:rb] panics when lb > rb
SearchHit ==
    /\ pc = "hits" /\ hi <= Len(locs)
    /\ LET b == ContextBounds(locs[hi][1], cfg.ContextSize, Len(fileData))
       IN  IF b.lb > b.rb
           THEN /\ out' = Append(out, Ev("stderr", "panic: slice bounds out of range",
                                         <<>>, 0, <<>>))
                /\ pc' = "exit"
                /\ exitCode' = 2
                /\ UNCHANGED <<hi, ri>>
           ELSE /\ out' = Append(out, Ev("stdout", "hit", files[fi], hi,
                                         ContextText(fileData, b)))
                /\ IF hi < Len(locs)
                   THEN /\ hi' = hi + 1
                        /\ UNCHANGED <<pc, ri>>
                   ELSE /\ ri' = ri + 1
                        /\ pc' = "terms"
                        /\ UNCHANGED hi
                /\ UNCHANGED exitCode
    /\ UNCHANGED <<envVars, fs, params, editor, openVars, files, res, fi,
                   fileData, locs, reads, histVars>>

\* Line 240
SearchExit ==
    /\ pc = "files" /\ fi > Len(files)
    /\ pc' = "exit"
    /\ exitCode' = 0
    /\ UNCHANGED <<envVars, fs, params, out, editor, openVars, searchVars,
                   histVars>>

(***************************************************************************)
(* main, open log: lines 243-292                                           *)
(***************************************************************************)
OpenMode == ~params.Config /\ ~params.Search

IsToday(s) == s = S_today \/ Len(s) = 0

IsRelative(s) == IsToday(s) \/ s = S_yesterday \/ s = S_tomorrow

\* Lines 36-38: "today" or "", the first time.Now(), for the year
ParseTodayYear ==
    /\ pc = "main" /\ OpenMode /\ IsToday(Normalise(params.Date))
    /\ \E t \in NowAfter(NoInstant) :
          /\ now0' = t
          /\ now' = t
          /\ pd' = [NoDatePath EXCEPT !.year = LocalDate(t).year]
    /\ pc' = "today_month"
    /\ UNCHANGED <<envVars, fs, params, exitCode, out, editor, wmPath,
                   searchVars, histVars>>

\* Line 39: the second time.Now(), for the month
ParseTodayMonth ==
    /\ pc = "today_month"
    /\ \E t \in NowAfter(now) :
          /\ now' = t
          /\ pd' = [pd EXCEPT !.month = LocalDate(t).month]
    /\ pc' = "today_day"
    /\ UNCHANGED <<envVars, fs, params, exitCode, out, editor, now0, wmPath,
                   searchVars, histVars>>

\* Line 40: the third time.Now(), for the day
ParseTodayDay ==
    /\ pc = "today_day"
    /\ \E t \in NowAfter(now) :
          /\ now' = t
          /\ pd' = [pd EXCEPT !.day = LocalDate(t).day]
    /\ pc' = "path"
    /\ UNCHANGED <<envVars, fs, params, exitCode, out, editor, now0, wmPath,
                   searchVars, histVars>>

\* Lines 41-47: "yesterday" is the date 24 hours before now
ParseYesterday ==
    /\ pc = "main" /\ OpenMode /\ Normalise(params.Date) = S_yesterday
    /\ \E t \in NowAfter(NoInstant) :
          /\ now0' = t
          /\ now' = t
          /\ pd' = LocalDate(AddHours(t, -24))
    /\ pc' = "path"
    /\ UNCHANGED <<envVars, fs, params, exitCode, out, editor, wmPath,
                   searchVars, histVars>>

\* Lines 48-54: "tomorrow" is the date 24 hours after now
ParseTomorrow ==
    /\ pc = "main" /\ OpenMode /\ Normalise(params.Date) = S_tomorrow
    /\ \E t \in NowAfter(NoInstant) :
          /\ now0' = t
          /\ now' = t
          /\ pd' = LocalDate(AddHours(t, 24))
    /\ pc' = "path"
    /\ UNCHANGED <<envVars, fs, params, exitCode, out, editor, wmPath,
                   searchVars, histVars>>

\* Lines 57-86 and 243-246: any other input goes through the layouts
ParseLayouts ==
    /\ pc = "main" /\ OpenMode /\ ~IsRelative(Normalise(params.Date))
    /\ LET r == ParseFormats(Normalise(params.Date))
       IN  IF r.ok
           THEN /\ pd' = [year |-> r.year, month |-> r.month, day |-> r.day]
                /\ pc' = "path"
                /\ UNCHANGED <<out, exitCode>>
           ELSE /\ Fatal("error parsing date: unable to parse",
                         Normalise(params.Date))
                /\ UNCHANGED pd
    /\ UNCHANGED <<envVars, fs, params, editor, now0, now, wmPath, searchVars,
                   histVars>>

\* Lines 247-255
BuildPath ==
    /\ pc = "path"
    /\ IF NeedsHome(cfg.Root, pd) /\ ~home.ok
       THEN /\ Fatal("failed to convert '~' to the users home directory", <<>>)
            /\ UNCHANGED wmPath
       ELSE /\ wmPath' = WmPath(cfg.Root, pd, home.dir)
            /\ pc' = "ensure"
            /\ UNCHANGED <<out, exitCode>>
    /\ UNCHANGED <<envVars, fs, params, editor, now0, now, pd, searchVars,
                   histVars>>

\* Lines 256-257: os.MkdirAll(filepath.Dir(path)) having made the first k
\* directories that were missing
MkdirResult(os, f, path, k) ==
    [f EXCEPT !.dirs = @ \cup SeqRange(SubSeq(DirChain(os, Dir(os, path)), 1, k))]

\* The variant that creates the file whether or not it is there.
CreateResultTruncating(os, f, path, ds, fail) ==
    IF fail \in {"stat", "create"} THEN f
    ELSE [f EXCEPT !.files =
              (Clean(os, path) :> (IF fail = "write" THEN <<>> ELSE Header(ds))) @@ @]

\* Lines 262-280: the file system after Stat, Create, WriteString and Close,
\* the first failure being fail ("" when none)
CreateResult(os, f, path, ds, fail) ==
    IF Exists(os, f, path) \/ fail \in {"stat", "create"} THEN f
    ELSE [f EXCEPT !.files =
              (Clean(os, path) :> (IF fail = "write" THEN <<>> ELSE Header(ds))) @@ @]

\* Lines 256-285: the directories, then the file unless it is there
EnsureLogFile ==
    /\ pc = "ensure"
    /\ LET chain == DirChain(goos, Dir(goos, wmPath))
           made  == MkdirResult(goos, fs, wmPath, Len(chain))
           key   == Clean(goos, wmPath)
       IN  \E fail \in {"", "mkdir", "stat", "create", "write", "close"} :
             IF fail = "mkdir"
             THEN /\ SeqRange(chain) \ fs.dirs # {}
                  /\ \E k \in 0..(Len(chain) - 1) :
                        fs' = MkdirResult(goos, fs, wmPath, k)
                  /\ Fatal("failed to create directory for working memory file", wmPath)
                  /\ UNCHANGED ensured
             ELSE /\ fail \in {"create", "write", "close"} => ~Exists(goos, made, wmPath)
                  /\ fs' = CreateResult(goos, made, wmPath, pd, fail)
                  /\ IF fail = ""
                     THEN /\ pc' = "editor"
                          /\ ensured' = IF key \in DOMAIN fs'.files
                                        THEN ensured @@ (key :> fs'.files[key])
                                        ELSE ensured
                          /\ UNCHANGED <<out, exitCode>>
                     ELSE /\ Fatal("working memory file: " \o fail, wmPath)
                          /\ UNCHANGED ensured
    /\ UNCHANGED <<envVars, params, editor, openVars, searchVars, runs, fs0>>

\* Lines 287-292: cmd.Start(), then os.Exit(0) without cmd.Wait()
StartEditor ==
    /\ pc = "editor"
    /\ \E started \in BOOLEAN :
          IF started
          THEN /\ editor' = "running"
               /\ pc' = "exit"
               /\ exitCode' = 0
               /\ UNCHANGED out
          ELSE /\ Fatal("failed to open working memory file", <<>>)
               /\ UNCHANGED editor
    /\ UNCHANGED <<envVars, fs, params, openVars, searchVars, histVars>>

(***************************************************************************)
(* Invocations: what the command line, the configuration, the environment  *)
(* and the file system may be when the program starts                      *)
(***************************************************************************)
EmptyMap == [x \in {} |-> <<>>]

EmptyFS == [files |-> EmptyMap, dirs |-> {}]

\* f with a file of the given content at path, in its directory
WithFile(os, f, path, content) ==
    [files |-> (Clean(os, path) :> content) @@ f.files,
     dirs  |-> f.dirs \cup SeqRange(DirChain(os, Dir(os, path)))]

ParamsConfig      == [Config |-> TRUE,  Search |-> FALSE, Term |-> <<>>, Date |-> <<>>]
ParamsSearch(t)   == [Config |-> FALSE, Search |-> TRUE,  Term |-> t,    Date |-> <<>>]
ParamsOpen(d)     == [Config |-> FALSE, Search |-> FALSE, Term |-> <<>>, Date |-> d]

Config(root, size) == [Root |-> root, Editor |-> "notepad", ContextSize |-> size]

R_plain == <<"/","l">>
R_slash == <<"/","l","/">>
R_home  == <<"~","/","l">>
R_mid   == <<"/","x","~","/","l">>
R_bad   == <<"/","l","[","]">>

HomeDir(os) == IF os = "windows" THEN <<"C",":","\\","u">> ELSE <<"/","h">>

Homes(os) == {[ok |-> TRUE, dir |-> HomeDir(os)], [ok |-> FALSE, dir |-> <<>>]}

P_log5 == <<"/","l","/","2","0","2","4","/","3","/","5",".","t","x","t">>
P_log6 == <<"/","l","/","2","0","2","4","/","3","/","6",".","t","x","t">>
P_note == <<"/","l","/","n",".","t","x","t">>

D_slash  == <<"3","/","5","/","2","0","2","4">>
D_nodate == <<"1","3","/","1","3","/","2","0","2","4">>
D_amb    == <<"3","/","4","/","2","0","2","4">>

T_a == <<"a">>

\* Every variable of one run at its start, given the invocation.
StartRun(P) ==
    /\ params \in P
    /\ pc = "main"
    /\ exitCode = -1
    /\ out = <<>>
    /\ editor = "none"
    /\ now0 = NoInstant
    /\ now = NoInstant
    /\ pd = NoDatePath
    /\ wmPath = <<>>
    /\ files = <<>>
    /\ res = <<>>
    /\ fi = 0
    /\ ri = 0
    /\ hi = 0
    /\ fileData = <<>>
    /\ locs = <<>>
    /\ reads = {}

\* The program is invoked again, on the file system the last run left.
Restart(P) ==
    /\ pc = "exit" /\ runs < MaxRuns
    /\ params' \in P
    /\ pc' = "main"
    /\ exitCode' = -1
    /\ out' = <<>>
    /\ editor' = "none"
    /\ now0' = NoInstant
    /\ now' = NoInstant
    /\ pd' = NoDatePath
    /\ wmPath' = <<>>
    /\ files' = <<>>
    /\ res' = <<>>
    /\ fi' = 0
    /\ ri' = 0
    /\ hi' = 0
    /\ fileData' = <<>>
    /\ locs' = <<>>
    /\ reads' = {}
    /\ runs' = runs + 1
    /\ fs0' = fs
    /\ UNCHANGED <<envVars, fs, ensured>>

(***************************************************************************)
(* Spec: the three modes, run after run on one file system                 *)
(***************************************************************************)
MainParams ==
    {ParamsConfig, ParamsSearch(<<T_a>>), ParamsOpen(D_slash), ParamsOpen(D_nodate)}

MainRoots == {R_plain, R_slash, R_home, R_mid}

Init ==
    /\ goos \in {"linux", "windows"}
    /\ home \in Homes(goos)
    /\ cfg \in {Config(r, 1) : r \in MainRoots}
    /\ fs \in {EmptyFS, WithFile(goos, EmptyFS, P_log5, <<"a","b">>)}
    /\ StartRun(MainParams)
    /\ runs = 1
    /\ fs0 = fs
    /\ ensured = EmptyMap

Next ==
    \/ ConfigStart \/ ConfigWait \/ EditorExit
    \/ SearchGlob \/ SearchCompile \/ SearchAnnounce \/ SearchReadFile
    \/ SearchTerm \/ SearchNextFile \/ SearchHit \/ SearchExit
    \/ ParseLayouts \/ BuildPath \/ EnsureLogFile \/ StartEditor
    \/ Restart(MainParams)

Spec == Init /\ [][Next]_vars

(***************************************************************************)
(* SpecDate: one open-log run for each date argument of a larger set and   *)
(* each hour of the clock                                                  *)
(***************************************************************************)
DateParts == {
    <<"2">>,
    <<"3">>,
    <<"1","3">>,
    <<"2","9">>,
    <<"3","1">>,
    <<"f","e","b">>,
    <<"F","e","b">>,
    <<"f","e","b","r","u","a","r","y">>,
    <<"m","a","y">>,
    <<"2","0","2","4">>,
    <<"2","0","2","3">>,
    <<"2","4">> }

DateSeps == {<<"/">>, <<"-">>, <<" ">>, <<",", " ">>}

RelativeInputs == {
    <<"t","o","d","a","y">>,
    <<"T","o","d","a","y">>,
    <<" ","t","o","d","a","y"," ">>,
    <<>>,
    <<" "," ">>,
    <<"y","e","s","t","e","r","d","a","y">>,
    <<"Y","E","S","T","E","R","D","A","Y">>,
    <<"t","o","m","o","r","r","o","w">>,
    <<"T","o","m","o","r","r","o","w","\n">> }

OtherInputs == {
    <<" ","3","/","4","/","2","0","2","4"," ">>,
    <<"F","E","B"," ","2","9"," ","2","0","2","4">>,
    <<"f","e","b"," "," ","2","9"," "," ","2","0","2","4">>,
    <<"f","e","b","r","u","a","r","y"," ","2","9",","," ","2","0","2","4","x">>,
    <<"2","9","-","F","E","B","-","2","0","2","4">>,
    <<"0","/","1","/","2","0","2","4">>,
    <<"1","/","0","/","2","0","2","4">>,
    <<"m","a","y"," ","2"," ","2","0","2","4">>,
    <<"2"," ","m","a","y",","," ","2","0","2","4">>,
    <<"s","e","p","t"," ","2"," ","2","0","2","4">>,
    <<"3","/","4","/","0","2","0","2","4">> }

DateInputs ==
    RelativeInputs \cup OtherInputs \cup
    {a \o s1 \o b \o s2 \o c : a \in DateParts, b \in DateParts, c \in DateParts,
                              s1 \in DateSeps \ {<<",", " ">>}, s2 \in DateSeps}

InitDate ==
    /\ goos = "linux"
    /\ home = [ok |-> TRUE, dir |-> HomeDir("linux")]
    /\ cfg = Config(R_plain, 1)
    /\ fs = EmptyFS
    /\ StartRun({ParamsOpen(d) : d \in DateInputs})
    /\ runs = 1
    /\ fs0 = fs
    /\ ensured = EmptyMap

NextDate ==
    \/ ParseTodayYear \/ ParseTodayMonth \/ ParseTodayDay
    \/ ParseYesterday \/ ParseTomorrow \/ ParseLayouts
    \/ BuildPath \/ EnsureLogFile \/ StartEditor \/ EditorExit

SpecDate == InitDate /\ [][NextDate]_vars

(***************************************************************************)
(* SpecSearch: one search run for each list of terms, each context size    *)
(* and each content of a log file                                          *)
(***************************************************************************)
StringsUpTo(A, n) == UNION {[1..k -> A] : k \in 0..n}

\* What a log file may hold.
Contents == StringsUpTo({"a", "b", "\n"}, MaxLen)

\* The terms of a search: the empty term, two literals, and two terms with
\* a group that is never closed.
Terms == {<<>>, <<"a">>, <<"a","a">>, <<"(">>, <<"a","(">>}

TermLists == StringsUpTo(Terms, MaxTerms)

ContextSizes == (-1)..MaxCtx

SearchFS ==
    {WithFile("linux", WithFile("linux", EmptyFS, P_note, <<"a">>), P_log5, c) :
        c \in Contents}
    \cup
    {WithFile("linux", WithFile("linux", EmptyFS, P_log6, <<"b","a">>), P_log5, c) :
        c \in Contents}

InitSearch ==
    /\ goos = "linux"
    /\ home = [ok |-> TRUE, dir |-> HomeDir("linux")]
    /\ cfg \in {Config(R_slash, n) : n \in ContextSizes} \cup {Config(R_bad, 0)}
    /\ fs \in SearchFS
    /\ StartRun({ParamsSearch(t) : t \in TermLists})
    /\ runs = 1
    /\ fs0 = fs
    /\ ensured = EmptyMap

NextSearch ==
    \/ SearchGlob \/ SearchCompile \/ SearchAnnounce \/ SearchReadFile
    \/ SearchTerm \/ SearchNextFile \/ SearchHit \/ SearchExit

SpecSearch == InitSearch /\ [][NextSearch]_vars

(***************************************************************************)
(* The claims                                                              *)
(***************************************************************************)
LogKey == Clean(goos, wmPath)

\* C1: ensureLogFile on a path with no file makes the parent directories
\* and the file, holding exactly the header; on a path with a file it
\* changes nothing; so no file that was there when a run started, and no
\* file an earlier run ensured, ever differs from what it held then.
C1_EnsureLogFile ==
    /\ (OpenMode /\ pc = "editor") =>
          IF Exists(goos, fs0, wmPath)
          THEN fs = fs0
          ELSE /\ fs.files = (LogKey :> Header(pd)) @@ fs0.files
               /\ SeqRange(DirChain(goos, Dir(goos, wmPath))) \subseteq fs.dirs
               /\ fs0.dirs \subseteq fs.dirs
    /\ \A k \in DOMAIN fs0.files :
          k \in DOMAIN fs.files /\ fs.files[k] = fs0.files[k]
    /\ \A k \in DOMAIN ensured :
          k \in DOMAIN fs.files /\ fs.files[k] = ensured[k]

\* A second run has ensured the file the first run created.
C1_Witness ==
    /\ runs = 2 /\ OpenMode /\ pc = "editor"
    /\ LogKey \in DOMAIN ensured
    /\ LogKey \in DOMAIN fs0.files
    /\ fs.files[LogKey] = Header(pd)

\* C2: every log file an open-log run has ensured under the root is among
\* the files a search run lists for the same root.
C2_SearchListsOpenedLogs ==
    (params.Search /\ pc = "compile") =>
        \A k \in DOMAIN ensured : k \in SeqRange(files)

IsNote(e) == e.stream = "stderr" /\ e.kind = ":::note::: failed to read"

\* C3: a file whose read fails is skipped: after the warning nothing is
\* printed for it, neither its header nor a hit, and the run ends with
\* exit code 0.
C3_UnreadableFileSkipped ==
    /\ \A i \in DOMAIN out : \A j \in DOMAIN out :
          (IsNote(out[i]) /\ out[j].stream = "stdout" /\ out[j].kind \in {"header", "hit"})
              => out[j].arg # out[i].arg
    /\ (pc = "exit" /\ \E i \in DOMAIN out : IsNote(out[i])) => exitCode = 0

\* A term that opens a group and never closes it is no regular expression.
Malformed(term) ==
    \E k \in 1..Len(term) :
        term[k] = "(" /\ \A m \in (k + 1)..Len(term) : term[m] # ")"

\* The places in the term list of the malformed terms.
BadTerms == {i \in 1..Len(params.Term) : Malformed(params.Term[i])}

NothingSearched ==
    /\ reads = {}
    /\ \A i \in DOMAIN out : out[i].stream # "stdout"

\* C4, as claimed: with a malformed term in the list the run ends in a
\* fatal error that names a malformed term, nothing read, nothing printed.
C4_FatalNamesTheTerm ==
    (params.Search /\ BadTerms # {}) =>
        /\ NothingSearched
        /\ pc = "exit" =>
              /\ exitCode = 1
              /\ out[Len(out)].kind = "could not compile search term"
              /\ \E i \in BadTerms : out[Len(out)].arg = params.Term[i]

\* C4, amended: with a malformed term in the list no file is read and
\* nothing is printed, and the run ends in a fatal error: the one of the
\* file listing when the pattern built from the root is malformed, else
\* the one that names the first malformed term of the list.
C4_FatalBeforeAnyRead ==
    (params.Search /\ BadTerms # {}) =>
        /\ NothingSearched
        /\ pc \in {"main", "compile", "exit"}
        /\ pc = "exit" =>
              /\ exitCode = 1
              /\ Len(out) = 1
              /\ IF BadPattern(goos, SearchPath(cfg.Root))
                 THEN out[1].kind = "failed to read all files in the root directory"
                 ELSE /\ out[1].kind = "could not compile search term"
                      /\ \A i \in BadTerms :
                            (\A j \in BadTerms : i <= j) => out[1].arg = params.Term[i]

\* The second of two terms is malformed and the fatal error names it.
C4_Witness ==
    /\ params.Search /\ pc = "exit" /\ exitCode = 1
    /\ Len(params.Term) = 2 /\ BadTerms = {2}
    /\ out[Len(out)].arg = params.Term[2]

IsHit(e) == e.stream = "stdout" /\ e.kind = "hit"

IsHeader(e) == e.stream = "stdout" /\ e.kind = "header"

\* The hits printed for term r of file f, in the order printed.
PassHits(f, r) == SelectSeq(out, LAMBDA e : IsHit(e) /\ e.arg = f /\ e.ri = r)

\* What the run holds of file f: nothing when its read failed.
DataRead(f) ==
    IF \E i \in DOMAIN out : IsNote(out[i]) /\ out[i].arg = f
    THEN <<>> ELSE fs.files[f]

Occurs(lit, data, p) ==
    p + Len(lit) <= Len(data) /\ Slice(data, p, p + Len(lit)) = lit

\* The hits h of one term in one file are numbered 1, 2, 3, ..., each an
\* occurrence of the term, each behind the end of the one before it; every
\* occurrence up to the last hit (every occurrence, when the pass is
\* complete) lies in one of them.
PassInOrder(h, lit, data, complete) ==
    /\ \A k \in 1..Len(h) :
          /\ h[k].n = k
          /\ Occurs(lit, data, h[k].off)
          /\ k > 1 => /\ h[k].off > h[k - 1].off
                      /\ h[k].off >= h[k - 1].off + Len(lit)
    /\ \A p \in 0..Len(data) :
          (Occurs(lit, data, p) /\ (complete \/ (Len(h) > 0 /\ p <= h[Len(h)].off)))
              => \E k \in 1..Len(h) :
                    /\ h[k].off <= p
                    /\ p <= h[k].off + (IF Len(lit) = 0 THEN 0 ELSE Len(lit) - 1)

\* The run is inside file fi (or has panicked there).
InFile == pc \in {"terms", "hits"} \/ exitCode = 2

PassComplete(f, r) == f < fi \/ (InFile /\ f = fi /\ r < ri)

PassStarted(f, r) == PassComplete(f, r) \/ (InFile /\ f = fi /\ r = ri)

C6_EditorLaunch ==
    /\ (params.Config /\ pc = "exit") =>
          /\ editor \in {"none", "exit0", "exit1"}
          /\ exitCode = (IF editor = "exit0" THEN 0 ELSE 1)
    /\ (params.Config /\ editor = "running") => pc = "cfg_wait"
    /\ OpenMode =>
          /\ editor # "none" => (pc = "exit" /\ exitCode = 0)
          /\ (pc = "exit" /\ editor = "none") => exitCode = 1

\* In open-log mode main has exited with 0 and the editor still runs.
C6_Witness ==
    OpenMode /\ pc = "exit" /\ exitCode = 0 /\ editor = "running"

RelativeOffset(s) ==
    IF s = S_yesterday THEN -1 ELSE IF s = S_tomorrow THEN 1 ELSE 0

\* C7: for "today", "yesterday", "tomorrow" and "" parseDateString returns
\* the calendar date 0, -1, +1 and 0 days from the date of the clock at an
\* instant of the call.
C7_RelativeDates ==
    (OpenMode /\ pc = "path" /\ IsRelative(Normalise(params.Date))) =>
        \E t \in {now0, now} :
            pd = CalendarDay(t, RelativeOffset(Normalise(params.Date)))

\* The path with every separator the host's.
ToNative(os, path) ==
    [i \in 1..Len(path) |->
        IF path[i] \in {"/", "\\"} THEN Separator(os) ELSE path[i]]

\* C8: the path is root/year/month/day.txt; a root that does not start
\* with the home marker is left as it is; a leading home marker is
\* replaced by the home directory, and then every separator is the host's.
C8_PathBuilder ==
    (OpenMode /\ pc = "ensure") =>
        IF HasPrefixAt(cfg.Root, C_TildeSlash, 1)
        THEN wmPath = ToNative(goos, home.dir \o <<"/">>
                          \o Slice(cfg.Root, 2, Len(cfg.Root)) \o DatePathString(pd))
        ELSE wmPath = cfg.Root \o DatePathString(pd)

\* C9: an input that is no relative literal gets the date of the first
\* layout of the list that parses it ("3/4/2024" is the fourth of March);
\* when no layout parses it the run ends in a fatal error with no
\* directory or file made and no editor started.
C9_FirstLayoutWins ==
    LET s == Normalise(params.Date)
    IN  (OpenMode /\ ~IsRelative(s) /\ pc # "main") =>
            /\ \A i \in 1..Len(dateFormats) :
                  (/\ Parse(dateFormats[i], s).ok
                   /\ \A j \in 1..(i - 1) : ~Parse(dateFormats[j], s).ok)
                  => /\ pd.year = Parse(dateFormats[i], s).year
                     /\ pd.month = Parse(dateFormats[i], s).month
                     /\ pd.day = Parse(dateFormats[i], s).day
            /\ (\A i \in 1..Len(dateFormats) : ~Parse(dateFormats[i], s).ok)
                  => /\ pc = "exit" /\ exitCode = 1
                     /\ pd = NoDatePath
                     /\ fs = fs0 /\ fs = EmptyFS
                     /\ editor = "none"
                     /\ Len(out) = 1
                     /\ out[1].kind = "error parsing date: unable to parse"
            /\ s = D_amb => pd = [year |-> 2024, month |-> 3, day |-> 4]

\* "3/4/2024" (here with spaces around it) has been read month first.
C9_Witness ==
    /\ OpenMode /\ pc = "path"
    /\ Normalise(params.Date) = D_amb
    /\ params.Date # D_amb
    /\ pd.month = 3

\* C10: the bounds of the context window of a match at offset s in a file
\* of length n are max(0, s - r) and min(n, s + r), and
\* 0 <= lower <= s <= upper <= n, for every configured context size r.
C10_ContextWindow ==
    (params.Search /\ pc = "hits" /\ hi <= Len(locs)) =>
        LET s == locs[hi][1]
            n == Len(fileData)
            r == cfg.ContextSize
            b == ContextBounds(s, r, n)
        IN  /\ b.lb = (IF s - r > 0 THEN s - r ELSE 0)
            /\ b.rb = (IF s + r < n THEN s + r ELSE n)
            /\ 0 <= b.lb /\ b.lb <= s /\ s <= b.rb /\ b.rb <= n

====
